---- MODULE Spec2Model ----
(***************************************************************************)
(* Model of the Cosmos DB Python binding: the container handle             *)
(* (src/src/container.rs), the account handle (src/src/client.rs) and the  *)
(* marshaling helpers (src/src/utils.rs).                                  *)
(*                                                                         *)
(* Host (Python) values are records [type, val]; wire (JSON) values are    *)
(* records [type, val] with the JSON type names.  Optional values are      *)
(* [some |-> FALSE] or [some |-> TRUE, v |-> x]; results are               *)
(* [ok |-> TRUE, v |-> x] or [ok |-> FALSE, err |-> e].                     *)
(***************************************************************************)
EXTENDS Integers, Sequences, FiniteSets, TLC

(* ------------------------------ bounds -------------------------------- *)
\* number of host threads that call into the binding
NThreads == 2
\* total number of calls issued in one behaviour of Spec
MaxCalls == 2
\* largest number of fields of a request body drawn in SpecCall
MaxBodyFields == 2

Threads == 1..NThreads

(* --------------------------- option / result --------------------------- *)
None == [some |-> FALSE]
Some(x) == [some |-> TRUE, v |-> x]
Ok(x) == [ok |-> TRUE, v |-> x]
Err(e) == [ok |-> FALSE, err |-> e]

(* ------------------------------ errors --------------------------------- *)
\* a host exception: its class and its message
PyErr(class, msg) == [class |-> class, msg |-> msg]

PartitionKeyTypeError == PyErr("PyTypeError", "Partition key must be string, int, or float")
PartitionKeyNotFound == PyErr("PyValueError", "Partition key not found in body or kwargs")
PartitionKeyNotInKwargs == PyErr("PyValueError", "Partition key must be provided in kwargs when body is a JSON string")
QueryNeedsPartitionKey == PyErr("PyValueError", "partition_key is required for queries. For cross-partition queries, this will be supported in a future update.")
PatchNotImplemented == PyErr("PyNotImplementedError", "patch_item is not yet implemented")
InvalidJson == PyErr("PyValueError", "Invalid JSON")
NotJsonSerializable == PyErr("PyTypeError", "Object is not JSON serializable")

(* ---------------------------- host values ------------------------------ *)
PyVal(type, val) == [type |-> type, val |-> val]
PyStr(s) == PyVal("str", s)
PyNone == PyVal("NoneType", "None")

\* integer literals of the universe that do not fit a signed 64-bit integer
OutOfI64 == {"18446744073709551616"}

\* every host value a caller can pass as a partition key
RawValues ==
    { PyStr("a1"), PyStr("fruit"), PyVal("int", "3"),
      PyVal("int", "18446744073709551616"), PyVal("float", "1.5"),
      PyVal("bool", "True"), PyNone, PyVal("dict", "{}"),
      PyVal("bytes", "b'x'") }

\* host values drawn for the fields of a structured body
BodyValues ==
    { PyStr("a1"), PyStr("fruit"), PyVal("int", "3"), PyNone,
      PyVal("bytes", "b'x'") }

\* pk.extract::<String>(): only a str converts
ExtractString(pk) ==
    IF pk.type = "str" THEN Ok(pk.val) ELSE Err("TypeError")

\* pk.extract::<i64>(): an int (bool is an int subclass) that fits 64 bits
ExtractI64(pk) ==
    CASE pk.type = "int" /\ pk.val \notin OutOfI64 -> Ok(pk.val)
      [] pk.type = "bool" -> Ok(IF pk.val = "True" THEN "1" ELSE "0")
      [] OTHER -> Err(IF pk.type = "int" THEN "OverflowError" ELSE "TypeError")

\* the double nearest to an integer literal
IntToDouble(lit) ==
    CASE lit = "3" -> "3.0"
      [] lit = "18446744073709551616" -> "1.8446744073709552e19"
      [] lit = "1" -> "1.0"
      [] OTHER -> "0.0"

\* pk.extract::<f64>(): a float, or anything with __float__/__index__
ExtractF64(pk) ==
    CASE pk.type = "float" -> Ok(pk.val)
      [] pk.type = "int" -> Ok(IntToDouble(pk.val))
      [] pk.type = "bool" -> Ok(IF pk.val = "True" THEN "1.0" ELSE "0.0")
      [] OTHER -> Err("TypeError")

\* RustPartitionKey: a closed variant over text / integer / real
PartitionKey(variant, val) == [variant |-> variant, val |-> val]

\* a value of any other type turned into text instead of refused
python_to_partition_key_lenient(pk) ==
    CASE ExtractString(pk).ok -> Ok(PartitionKey("Text", ExtractString(pk).v))
      [] ExtractI64(pk).ok -> Ok(PartitionKey("Integer", ExtractI64(pk).v))
      [] ExtractF64(pk).ok -> Ok(PartitionKey("Real", ExtractF64(pk).v))
      [] OTHER -> Ok(PartitionKey("Text", pk.val))

python_to_partition_key(pk) ==
    CASE ExtractString(pk).ok -> Ok(PartitionKey("Text", ExtractString(pk).v))
      [] ExtractI64(pk).ok -> Ok(PartitionKey("Integer", ExtractI64(pk).v))
      [] ExtractF64(pk).ok -> Ok(PartitionKey("Real", ExtractF64(pk).v))
      [] OTHER -> Err(PartitionKeyTypeError)

(* ------------------------------ kwargs --------------------------------- *)
\* kwargs: Option<&PyDict>; the dict is a function from names to host values
EmptyDict == [k \in {} |-> PyNone]
NoKwargs == [some |-> FALSE, dict |-> EmptyDict]
Kwargs(d) == [some |-> TRUE, dict |-> d]

\* dict.get_item(key): Ok(Some(value)) exactly when the key is in the dict
get_item(dict, key) ==
    IF key \in DOMAIN dict THEN Some(dict[key]) ELSE None

(* ----------------------------- resolver -------------------------------- *)
\* the scan order with "category" tried before "id"
common_pk_fields_category_first == <<"category", "id", "partitionKey", "pk", "type", "tenantId">>

common_pk_fields == <<"id", "category", "partitionKey", "pk", "type", "tenantId">>

\* the for loop over common_pk_fields, from index i on
RECURSIVE ScanFields(_, _)
ScanFields(body, i) ==
    IF i > Len(common_pk_fields) THEN Err(PartitionKeyNotFound)
    ELSE IF get_item(body, common_pk_fields[i]).some
         THEN python_to_partition_key(get_item(body, common_pk_fields[i]).v)
         ELSE ScanFields(body, i + 1)

\* the body's fields tried before the caller's override
extract_partition_key_body_first(body, kwargs) ==
    IF ScanFields(body, 1).ok \/ ~(kwargs.some /\ get_item(kwargs.dict, "partition_key").some)
    THEN ScanFields(body, 1)
    ELSE python_to_partition_key(get_item(kwargs.dict, "partition_key").v)

\* the scan of the body starting after "id"
extract_partition_key_skip_id(body, kwargs) ==
    IF kwargs.some /\ get_item(kwargs.dict, "partition_key").some
    THEN python_to_partition_key(get_item(kwargs.dict, "partition_key").v)
    ELSE ScanFields(body, 2)

extract_partition_key(body, kwargs) ==
    IF kwargs.some /\ get_item(kwargs.dict, "partition_key").some
    THEN python_to_partition_key(get_item(kwargs.dict, "partition_key").v)
    ELSE ScanFields(body, 1)

\* a missing override replaced by an empty text key
extract_partition_key_from_kwargs_default(kwargs) ==
    IF kwargs.some /\ get_item(kwargs.dict, "partition_key").some
    THEN python_to_partition_key(get_item(kwargs.dict, "partition_key").v)
    ELSE Ok(PartitionKey("Text", ""))

extract_partition_key_from_kwargs(kwargs) ==
    IF kwargs.some /\ get_item(kwargs.dict, "partition_key").some
    THEN python_to_partition_key(get_item(kwargs.dict, "partition_key").v)
    ELSE Err(PartitionKeyNotInKwargs)

(* ----------------------------- marshaler ------------------------------- *)
JsonVal(type, val) == [type |-> type, val |-> val]

\* number tokens that json.loads reads back as an int
IntegerLiterals == {"0", "1", "3"}

\* json.dumps of one host value followed by serde_json::from_str
PyToJson(v) ==
    CASE v.type = "str" -> Ok(JsonVal("string", v.val))
      [] v.type = "int" ->
           Ok(JsonVal("number", IF v.val \in OutOfI64 THEN IntToDouble(v.val) ELSE v.val))
      [] v.type = "float" -> Ok(JsonVal("number", v.val))
      [] v.type = "bool" -> Ok(JsonVal("boolean", IF v.val = "True" THEN "true" ELSE "false"))
      [] v.type = "NoneType" -> Ok(JsonVal("null", "null"))
      [] v.type = "dict" -> Ok(JsonVal("object", v.val))
      [] OTHER -> Err(NotJsonSerializable)

\* serde_json::to_string of one wire value followed by json.loads
JsonToPy(j) ==
    CASE j.type = "string" -> PyStr(j.val)
      [] j.type = "number" ->
           PyVal(IF j.val \in IntegerLiterals THEN "int" ELSE "float", j.val)
      [] j.type = "boolean" -> PyVal("bool", IF j.val = "true" THEN "True" ELSE "False")
      [] j.type = "null" -> PyNone
      [] OTHER -> PyVal("dict", j.val)

py_dict_to_json(dict) ==
    IF \E k \in DOMAIN dict : ~PyToJson(dict[k]).ok
    THEN Err(NotJsonSerializable)
    ELSE Ok([k \in DOMAIN dict |-> PyToJson(dict[k]).v])

json_to_py_dict(value) == [k \in DOMAIN value |-> JsonToPy(value[k])]

\* A request body is a host dict (shape "dict") or a host str (shape "str").
\* A str body is described by what a JSON parser makes of it: valid says
\* whether the text is well-formed, fields are the members its text spells.
DictBody(d) == [shape |-> "dict", valid |-> TRUE, fields |-> d]
TextBody(valid, members) == [shape |-> "str", valid |-> valid, fields |-> members]

\* json.loads / serde_json::from_str of a str body
ParseText(body) ==
    IF body.valid THEN Ok(body.fields) ELSE Err(InvalidJson)

py_object_to_json(body) ==
    IF body.shape = "dict" THEN py_dict_to_json(body.fields) ELSE ParseText(body)

\* json.loads(body).extract::<&PyDict>() on a str body
LoadsBody(body) ==
    IF ParseText(body).ok THEN Ok(json_to_py_dict(ParseText(body).v)) ELSE ParseText(body)

(* ---------------------------- error mapper ----------------------------- *)
\* exceptions::map_error: backend status -> host error kind
map_error(status) ==
    CASE status \in {401, 403} -> PyErr("AuthenticationError", "backend")
      [] status = 400 -> PyErr("ValidationError", "backend")
      [] status = 404 -> PyErr("NotFoundError", "backend")
      [] status = 409 -> PyErr("ConflictError", "backend")
      [] OTHER -> PyErr("BackendError", "backend")

(* ------------------------------ backend -------------------------------- *)
\* The backend capability (azure_data_cosmos ContainerClient) as the binding
\* sees it: items of the container, in insertion order, each stored under
\* the partition key and the id it was written with.
Item(pk, id, doc) == [pk |-> pk, id |-> id, doc |-> doc]

Positions(s, pk, id) == {i \in DOMAIN s : s[i].pk = pk /\ s[i].id = id}
HasItem(s, pk, id) == Positions(s, pk, id) # {}
PosOf(s, pk, id) == CHOOSE i \in Positions(s, pk, id) : TRUE

\* the id of a wire document, if it has a usable one
DocId(doc) ==
    IF "id" \in DOMAIN doc /\ doc["id"].type = "string" THEN Some(doc["id"].val) ELSE None

Reply(status, s, body) == [status |-> status, store |-> s, body |-> body]
NoBody == <<>>

backend_create_item(s, pk, doc) ==
    CASE ~DocId(doc).some -> Reply(400, s, NoBody)
      [] HasItem(s, pk, DocId(doc).v) -> Reply(409, s, NoBody)
      [] OTHER -> Reply(201, Append(s, Item(pk, DocId(doc).v, doc)), <<doc>>)

backend_upsert_item(s, pk, doc) ==
    CASE ~DocId(doc).some -> Reply(400, s, NoBody)
      [] HasItem(s, pk, DocId(doc).v) ->
           Reply(200, [s EXCEPT ![PosOf(s, pk, DocId(doc).v)].doc = doc], <<doc>>)
      [] OTHER -> Reply(201, Append(s, Item(pk, DocId(doc).v, doc)), <<doc>>)

backend_replace_item(s, pk, item_id, doc) ==
    CASE ~HasItem(s, pk, item_id) -> Reply(404, s, NoBody)
      [] DocId(doc) # Some(item_id) -> Reply(400, s, NoBody)
      [] OTHER -> Reply(200, [s EXCEPT ![PosOf(s, pk, item_id)].doc = doc], <<doc>>)

backend_read_item(s, pk, item_id) ==
    IF HasItem(s, pk, item_id)
    THEN Reply(200, s, <<s[PosOf(s, pk, item_id)].doc>>)
    ELSE Reply(404, s, NoBody)

RECURSIVE Without(_, _)
Without(s, i) ==
    IF s = <<>> THEN <<>>
    ELSE IF i = 1 THEN Tail(s) ELSE <<Head(s)>> \o Without(Tail(s), i - 1)

backend_delete_item(s, pk, item_id) ==
    IF HasItem(s, pk, item_id)
    THEN Reply(204, Without(s, PosOf(s, pk, item_id)), NoBody)
    ELSE Reply(404, s, NoBody)

RECURSIVE DocsOf(_, _)
DocsOf(s, pk) ==
    IF s = <<>> THEN <<>>
    ELSE (IF Head(s).pk = pk THEN <<Head(s).doc>> ELSE <<>>) \o DocsOf(Tail(s), pk)

\* SELECT * FROM c, scoped to one partition, in emission order
backend_query_items(s, pk) == Reply(200, s, DocsOf(s, pk))

(* ------------------------------ requests ------------------------------- *)
FieldNames == {"id", "category", "partitionKey", "pk", "type", "tenantId", "qty"}
ItemIds == {"a1", "a2"}
\* databases the account-level calls name (the container lives in "db1")
AccountDbIds == {"db2"}

\* JSON values spelled in a str body
TextValues == { JsonVal("string", "a1"), JsonVal("number", "3") }

\* all functions from at most n names of K to V
PartialFns(K, V, n) ==
    UNION { [S -> V] : S \in {T \in SUBSET K : Cardinality(T) <= n} }

WriteOps == {"create_item", "upsert_item", "replace_item"}
KeyedOps == {"read_item", "delete_item"}
AccountOps == {"create_database", "delete_database"}

Request(op, body, kwargs, item, pk, db, patch) ==
    [op |-> op, body |-> body, kwargs |-> kwargs, item |-> item, pk |-> pk,
     db |-> db, patch |-> patch]
NoRequest == Request("none", DictBody(EmptyDict), NoKwargs, "", PyNone, "", <<>>)

WriteReq(op, body, kwargs, item) == Request(op, body, kwargs, item, PyNone, "", <<>>)
KeyedReq(op, item, pk) == Request(op, DictBody(EmptyDict), NoKwargs, item, pk, "", <<>>)
QueryReq(kwargs) == Request("query_items", DictBody(EmptyDict), kwargs, "", PyNone, "", <<>>)
PatchReq(item, pk, ops) == Request("patch_item", DictBody(EmptyDict), NoKwargs, item, pk, "", ops)
AccountReq(op, db) == Request(op, DictBody(EmptyDict), NoKwargs, "", PyNone, db, <<>>)

PkKwargs(v) == Kwargs([k \in {"partition_key"} |-> v])
OtherKwargs == Kwargs([k \in {"etag"} |-> PyStr("a1")])
AllKwargs == {NoKwargs, OtherKwargs} \cup {PkKwargs(v) : v \in RawValues}

WideBodies ==
    {DictBody(d) : d \in PartialFns(FieldNames, BodyValues, MaxBodyFields)}
    \cup {TextBody(b, m) : b \in BOOLEAN, m \in PartialFns(FieldNames, TextValues, MaxBodyFields)}

\* the item argument of replace_item; unused by the other writes
ItemArg(op) == IF op = "replace_item" THEN "a1" ELSE ""

WideRequests ==
    {WriteReq(op, b, kw, ItemArg(op)) : op \in WriteOps, b \in WideBodies, kw \in AllKwargs}
    \cup {KeyedReq(op, i, v) : op \in KeyedOps, i \in ItemIds, v \in RawValues}
    \cup {QueryReq(kw) : kw \in AllKwargs}
    \cup {PatchReq(i, v, ops) : i \in ItemIds, v \in RawValues, ops \in {<<>>, <<"set">>}}
    \cup {AccountReq(op, db) : op \in AccountOps, db \in AccountDbIds}

\* requests of the end-to-end scenarios
FruitDoc == [k \in {"id", "category", "qty"} |->
               CASE k = "id" -> PyStr("a1")
                 [] k = "category" -> PyStr("fruit")
                 [] OTHER -> PyVal("int", "3")]
A2Text == TextBody(TRUE, [k \in {"id"} |-> JsonVal("string", "a2")])

ScenarioRequests ==
    { WriteReq("create_item", DictBody(FruitDoc), NoKwargs, ""),
      WriteReq("upsert_item", DictBody(FruitDoc), PkKwargs(PyStr("fruit")), ""),
      WriteReq("replace_item", DictBody(FruitDoc), NoKwargs, "a1"),
      WriteReq("create_item", A2Text, NoKwargs, ""),
      WriteReq("create_item", A2Text, PkKwargs(PyStr("fruit")), ""),
      KeyedReq("read_item", "a1", PyStr("fruit")),
      KeyedReq("read_item", "a1", PyStr("a1")),
      KeyedReq("delete_item", "a1", PyStr("a1")),
      QueryReq(PkKwargs(PyStr("fruit"))),
      QueryReq(NoKwargs),
      PatchReq("a1", PyStr("a1"), <<"set">>),
      AccountReq("create_database", "db2"),
      AccountReq("delete_database", "db2") }

(* --------------------------- returned values --------------------------- *)
PyDictObj(f) == [kind |-> "dict", fields |-> f]
PyListObj(items) == [kind |-> "list", items |-> items]
PyNoneObj == [kind |-> "None"]
DatabaseClientObj(id) == [kind |-> "DatabaseClient", id |-> id]

(* ------------------------------- state --------------------------------- *)
VARIABLES
    database_id,        \* ContainerClient.database_id
    container_id,       \* ContainerClient.container_id
    pc,                 \* per thread: where its current call stands
    call,               \* per thread: the arguments of its current call
    item_value,         \* per thread: local item_value
    partition_key,      \* per thread: local partition_key / pk / partition_key_opt
    response,           \* per thread: what block_on returned
    result,             \* per thread: what the call returned to the host
    gil,                \* the thread holding the interpreter lock, or 0
    container_runtime,  \* TOKIO_RUNTIME of container.rs
    client_runtime,     \* TOKIO_RUNTIME of client.rs
    runtimes_built,     \* number of Runtime constructions so far
    store,              \* backend: items of the container
    databases,          \* backend: databases of the account
    log,                \* backend: every request submitted to it, in order
    calls               \* number of calls issued so far

vars == <<database_id, container_id, pc, call, item_value, partition_key,
          response, result, gil, container_runtime, client_runtime,
          runtimes_built, store, databases, log, calls>>

handle == <<database_id, container_id>>
locals == <<item_value, partition_key, response>>
runtimes == <<container_runtime, client_runtime, runtimes_built>>
backend == <<store, databases, log>>

InitCommon ==
    /\ database_id = "db1"
    /\ container_id = "c1"
    /\ item_value = [t \in Threads |-> None]
    /\ partition_key = [t \in Threads |-> None]
    /\ response = [t \in Threads |-> None]
    /\ result = [t \in Threads |-> None]
    /\ gil = 0
    /\ container_runtime = "uninit"
    /\ client_runtime = "uninit"
    /\ runtimes_built = 0
    /\ databases = {}
    /\ log = <<>>

\* a process with its threads started and no call issued yet
Init ==
    /\ InitCommon
    /\ pc = [t \in Threads |-> "idle"]
    /\ call = [t \in Threads |-> NoRequest]
    /\ store = <<>>
    /\ calls = 0

(* ------------------------- steps of one call --------------------------- *)
\* the call of thread t returns res to the host and the thread lets go of
\* the interpreter lock
Return(t, res) ==
    /\ result' = [result EXCEPT ![t] = Some(res)]
    /\ pc' = [pc EXCEPT ![t] = "done"]
    /\ gil' = 0

\* the call of thread t goes on to phase p with what it holds
Goto(t, p) ==
    /\ pc' = [pc EXCEPT ![t] = p]
    /\ UNCHANGED <<result, gil>>

\* a host thread is about to make a call with arguments drawn from reqs
Issue(t, reqs) ==
    /\ pc[t] \in {"idle", "done"}
    /\ calls < MaxCalls
    /\ \E r \in reqs : call' = [call EXCEPT ![t] = r]
    /\ calls' = calls + 1
    /\ pc' = [pc EXCEPT ![t] = "pending"]
    /\ item_value' = [item_value EXCEPT ![t] = None]
    /\ partition_key' = [partition_key EXCEPT ![t] = None]
    /\ response' = [response EXCEPT ![t] = None]
    /\ result' = [result EXCEPT ![t] = None]
    /\ UNCHANGED <<handle, gil, runtimes, backend>>

\* a write that resolves its partition key first and skips marshaling
FirstPhase_resolve_first(op) ==
    CASE op \in WriteOps \cup KeyedOps \cup {"query_items"} -> "resolve"
      [] op = "patch_item" -> "patch"
      [] OTHER -> "block_on"

\* the first statement of each method
FirstPhase(op) ==
    CASE op \in WriteOps -> "marshal"
      [] op \in KeyedOps \cup {"query_items"} -> "resolve"
      [] op = "patch_item" -> "patch"
      [] OTHER -> "block_on"

\* the thread gets the interpreter lock and enters the method
Enter(t) ==
    /\ pc[t] = "pending"
    /\ gil = 0
    /\ gil' = t
    /\ pc' = [pc EXCEPT ![t] = FirstPhase(call[t].op)]
    /\ UNCHANGED <<handle, call, locals, result, runtimes, backend, calls>>

\* let item_value = py_object_to_json(py, body)?;
Marshal(t) ==
    /\ pc[t] = "marshal"
    /\ LET r == py_object_to_json(call[t].body) IN
         IF r.ok
         THEN /\ item_value' = [item_value EXCEPT ![t] = Some(r.v)]
              /\ Goto(t, "resolve")
         ELSE /\ Return(t, Err(r.err))
              /\ UNCHANGED item_value
    /\ UNCHANGED <<handle, call, partition_key, response, runtimes, backend, calls>>

\* the partition key of a create / upsert / replace
write_partition_key(body, kwargs) ==
    IF body.shape = "dict"
    THEN extract_partition_key(body.fields, kwargs)
    ELSE extract_partition_key_from_kwargs(kwargs)

\* a query without a key sent to an empty text partition
query_partition_key_opt_default(kwargs) ==
    IF kwargs.some /\ get_item(kwargs.dict, "partition_key").some
    THEN LET r == python_to_partition_key(get_item(kwargs.dict, "partition_key").v)
         IN IF r.ok THEN Ok(Some(r.v)) ELSE r
    ELSE Ok(Some(PartitionKey("Text", "")))

\* partition_key_opt of query_items
query_partition_key_opt(kwargs) ==
    IF kwargs.some /\ get_item(kwargs.dict, "partition_key").some
    THEN LET r == python_to_partition_key(get_item(kwargs.dict, "partition_key").v)
         IN IF r.ok THEN Ok(Some(r.v)) ELSE r
    ELSE Ok(None)

\* the partition key of the latest submission reused for the next call
resolve_cached(req) ==
    IF log # <<>> /\ log[Len(log)].pk.some
    THEN Ok(log[Len(log)].pk)
    ELSE CASE req.op \in WriteOps ->
                LET r == write_partition_key(req.body, req.kwargs)
                IN IF r.ok THEN Ok(Some(r.v)) ELSE r
           [] req.op \in KeyedOps ->
                LET r == python_to_partition_key(req.pk)
                IN IF r.ok THEN Ok(Some(r.v)) ELSE r
           [] OTHER -> query_partition_key_opt(req.kwargs)

\* the partition key each method computes before it calls block_on
resolve(req) ==
    CASE req.op \in WriteOps ->
           LET r == write_partition_key(req.body, req.kwargs)
           IN IF r.ok THEN Ok(Some(r.v)) ELSE r
      [] req.op \in KeyedOps ->
           LET r == python_to_partition_key(req.pk)
           IN IF r.ok THEN Ok(Some(r.v)) ELSE r
      [] OTHER -> query_partition_key_opt(req.kwargs)

Resolve(t) ==
    /\ pc[t] = "resolve"
    /\ LET r == resolve(call[t]) IN
         IF r.ok
         THEN /\ partition_key' = [partition_key EXCEPT ![t] = r.v]
              /\ Goto(t, "block_on")
         ELSE /\ Return(t, Err(r.err))
              /\ UNCHANGED partition_key
    /\ UNCHANGED <<handle, call, item_value, response, runtimes, backend, calls>>

\* patch_item checking its partition key before it gives up
patch_item_validating(item, pk, patch_operations) ==
    IF python_to_partition_key(pk).ok
    THEN Err(PatchNotImplemented)
    ELSE python_to_partition_key(pk)

\* what patch_item returns
patch_item(item, pk, patch_operations) == Err(PatchNotImplemented)

PatchItem(t) ==
    /\ pc[t] = "patch"
    /\ Return(t, patch_item(call[t].item, call[t].pk, call[t].patch))
    /\ UNCHANGED <<handle, call, locals, runtimes, backend, calls>>

\* the static a method's TOKIO_RUNTIME names
RuntimeOf(op) == IF op \in AccountOps THEN "client" ELSE "container"

\* Lazy::force on TOKIO_RUNTIME: the first use builds the runtime
ForceRuntime(t) ==
    /\ pc[t] = "block_on"
    /\ IF RuntimeOf(call[t].op) = "container"
       THEN /\ container_runtime' = "ready"
            /\ runtimes_built' = runtimes_built + (IF container_runtime = "uninit" THEN 1 ELSE 0)
            /\ UNCHANGED client_runtime
       ELSE /\ client_runtime' = "ready"
            /\ runtimes_built' = runtimes_built + (IF client_runtime = "uninit" THEN 1 ELSE 0)
            /\ UNCHANGED container_runtime
    /\ Goto(t, "async")
    /\ UNCHANGED <<handle, call, locals, backend, calls>>

\* one request as the backend receives it, with the call that submitted it
\* and the status the backend answered
Submission(t, req, pk, doc, status) ==
    [thread |-> t, req |-> req, runtime |-> RuntimeOf(req.op), op |-> req.op,
     status |-> status,
     database_id |-> IF req.op \in AccountOps THEN req.db ELSE database_id,
     container_id |-> IF req.op \in AccountOps THEN "" ELSE container_id,
     pk |-> pk, item |-> req.item, doc |-> doc]

\* the backend's answer to the container-level request of thread t
ItemReply(req, pk, doc) ==
    CASE req.op = "create_item" -> backend_create_item(store, pk, doc)
      [] req.op = "upsert_item" -> backend_upsert_item(store, pk, doc)
      [] req.op = "replace_item" -> backend_replace_item(store, pk, req.item, doc)
      [] req.op = "read_item" -> backend_read_item(store, pk, req.item)
      [] req.op = "delete_item" -> backend_delete_item(store, pk, req.item)
      [] OTHER -> backend_query_items(store, pk)

\* the backend's answer to an account-level request
backend_create_database(dbs, id) ==
    IF id \in dbs THEN [status |-> 409, dbs |-> dbs] ELSE [status |-> 201, dbs |-> dbs \cup {id}]
backend_delete_database(dbs, id) ==
    IF id \in dbs THEN [status |-> 204, dbs |-> dbs \ {id}] ELSE [status |-> 404, dbs |-> dbs]

Succeeded(status) == status \in 200..299

\* the async block of a container-level method, run to completion
ItemAsync(t) ==
    /\ pc[t] = "async"
    /\ call[t].op \notin AccountOps
    /\ IF call[t].op = "query_items" /\ ~partition_key[t].some
       THEN /\ Return(t, Err(QueryNeedsPartitionKey))
            /\ UNCHANGED <<response, backend>>
       ELSE \E fault \in BOOLEAN :
              LET pk == partition_key[t].v
                  doc == IF item_value[t].some THEN item_value[t].v ELSE EmptyDict
                  reply == IF fault THEN Reply(503, store, NoBody)
                           ELSE ItemReply(call[t], pk, doc)
              IN /\ log' = Append(log, Submission(t, call[t], partition_key[t], item_value[t], reply.status))
                 /\ store' = reply.store
                 /\ UNCHANGED databases
                 /\ IF Succeeded(reply.status)
                    THEN /\ response' = [response EXCEPT ![t] = Some(reply.body)]
                         /\ Goto(t, "respond")
                    ELSE /\ Return(t, Err(map_error(reply.status)))
                         /\ UNCHANGED response
    /\ UNCHANGED <<handle, call, item_value, partition_key, runtimes, calls>>

\* the async block of an account-level method, run to completion
AccountAsync(t) ==
    /\ pc[t] = "async"
    /\ call[t].op \in AccountOps
    /\ \E fault \in BOOLEAN :
         LET reply == CASE fault -> [status |-> 503, dbs |-> databases]
                        [] call[t].op = "create_database" ->
                             backend_create_database(databases, call[t].db)
                        [] OTHER -> backend_delete_database(databases, call[t].db)
         IN /\ log' = Append(log, Submission(t, call[t], None, None, reply.status))
            /\ databases' = reply.dbs
            /\ UNCHANGED store
            /\ IF Succeeded(reply.status)
               THEN /\ response' = [response EXCEPT ![t] = Some(NoBody)]
                    /\ Goto(t, "respond")
               ELSE /\ Return(t, Err(map_error(reply.status)))
                    /\ UNCHANGED response
    /\ UNCHANGED <<handle, call, item_value, partition_key, runtimes, calls>>

\* a str body handed back as the str it came in
write_response_raw(body) ==
    IF body.shape = "dict"
    THEN Ok(PyDictObj(body.fields))
    ELSE Ok([kind |-> "str", fields |-> body.fields])

\* what create_item / upsert_item / replace_item return after block_on
write_response(body) ==
    IF body.shape = "dict"
    THEN Ok(PyDictObj(body.fields))
    ELSE IF LoadsBody(body).ok THEN Ok(PyDictObj(LoadsBody(body).v)) ELSE LoadsBody(body)

\* what read_item returns after block_on
read_response(docs) == Ok(PyDictObj(json_to_py_dict(docs[1])))

\* what query_items returns after block_on
query_response(docs) ==
    Ok(PyListObj([i \in DOMAIN docs |-> PyDictObj(json_to_py_dict(docs[i]))]))

\* the value a method makes of its arguments and of what block_on returned
respond(req, docs) ==
    CASE req.op \in WriteOps -> write_response(req.body)
      [] req.op = "read_item" -> read_response(docs)
      [] req.op = "query_items" -> query_response(docs)
      [] req.op = "create_database" -> Ok(DatabaseClientObj(req.db))
      [] OTHER -> Ok(PyNoneObj)

Respond(t) ==
    /\ pc[t] = "respond"
    /\ Return(t, respond(call[t], response[t].v))
    /\ UNCHANGED <<handle, call, locals, runtimes, backend, calls>>

\* every step a call takes once it is issued
Step(t) ==
    \/ Enter(t)
    \/ Marshal(t)
    \/ Resolve(t)
    \/ PatchItem(t)
    \/ ForceRuntime(t)
    \/ ItemAsync(t)
    \/ AccountAsync(t)
    \/ Respond(t)

(* --------------------------- specifications ---------------------------- *)
\* host threads issuing the scenario requests against one container handle
Next == \E t \in Threads : Issue(t, ScenarioRequests) \/ Step(t)

Spec == Init /\ [][Next]_vars

\* every call that was issued runs on: the interpreter hands the lock to a
\* waiting thread and a thread holding it keeps executing
FairSpec == Spec /\ \A t \in Threads : WF_vars(Step(t))

\* the container before a single call
InitStores ==
    { <<>>,
      <<Item(PartitionKey("Text", "a1"), "a1",
             [k \in {"id"} |-> JsonVal("string", "a1")])>> }

\* one call, with arguments drawn from the whole request universe
InitCall ==
    /\ InitCommon
    /\ store \in InitStores
    /\ calls = MaxCalls
    /\ pc = [t \in Threads |-> IF t = 1 THEN "pending" ELSE "idle"]
    /\ \E r \in WideRequests : call = [t \in Threads |-> IF t = 1 THEN r ELSE NoRequest]

NextCall == Step(1)

SpecCall == InitCall /\ [][NextCall]_vars

(* ------------------------------- claims -------------------------------- *)
HasOverride(kw) == kw.some /\ "partition_key" \in DOMAIN kw.dict
Override(kw) == kw.dict["partition_key"]

\* the supported partition key types: text, 64-bit integer, floating point
WellTyped(v) == v.type \in {"str", "float"} \/ (v.type = "int" /\ v.val \notin OutOfI64)
KeyFor(v) ==
    PartitionKey(CASE v.type = "str" -> "Text" [] v.type = "int" -> "Integer" [] OTHER -> "Real",
                 v.val)

Conventional == {"id", "category", "partitionKey", "pk", "type", "tenantId"}
Rank(f) ==
    CASE f = "id" -> 1 [] f = "category" -> 2 [] f = "partitionKey" -> 3
      [] f = "pk" -> 4 [] f = "type" -> 5 [] OTHER -> 6
Present(d) == DOMAIN d \cap Conventional
FirstPresent(d) == CHOOSE f \in Present(d) : \A g \in Present(d) : Rank(f) <= Rank(g)

\* the call has a partition key in hand and is on its way to the backend
PastResolve(t) == pc[t] \in {"block_on", "async", "respond"}
Done(t) == pc[t] = "done" /\ result[t].some
DictWrite(req) == req.op \in WriteOps /\ req.body.shape = "dict"
TextWrite(req) == req.op \in WriteOps /\ req.body.shape = "str"

\* C1: a create / upsert / replace of a structured body that carries an
\* explicit partition_key override of a supported type resolves to the
\* override's value and submits under it, whatever the body holds; the body's
\* conventional fields never replace it.
C1_OverrideWins ==
    \A t \in Threads :
      LET req == call[t] IN
        (DictWrite(req) /\ HasOverride(req.kwargs) /\ WellTyped(Override(req.kwargs))) =>
          /\ PastResolve(t) => partition_key[t] = Some(KeyFor(Override(req.kwargs)))
          /\ \A i \in DOMAIN log :
               log[i].thread = t => log[i].pk = Some(KeyFor(Override(req.kwargs)))
          /\ (Done(t) /\ py_dict_to_json(req.body.fields).ok) => log # <<>>

\* an override was used although the body holds a well-typed id that differs
C1_Witness ==
    \E i \in DOMAIN log :
      LET req == log[i].req IN
        /\ DictWrite(req) /\ HasOverride(req.kwargs) /\ WellTyped(Override(req.kwargs))
        /\ "id" \in DOMAIN req.body.fields
        /\ WellTyped(req.body.fields["id"])
        /\ req.body.fields["id"] # Override(req.kwargs)
        /\ log[i].pk = Some(KeyFor(Override(req.kwargs)))

\* C2: without an override, a structured body resolves to the value of the
\* first conventional field present in the order id, category, partitionKey,
\* pk, type, tenantId, however many of the others are present; with none of
\* them present resolution fails with the 'not found' error.
C2_FirstFieldInOrder ==
    \A t \in Threads :
      LET req == call[t]
          d == req.body.fields
      IN (DictWrite(req) /\ ~HasOverride(req.kwargs)) =>
           IF Present(d) # {}
           THEN /\ PastResolve(t) =>
                     /\ python_to_partition_key(d[FirstPresent(d)]).ok
                     /\ partition_key[t] = Some(python_to_partition_key(d[FirstPresent(d)]).v)
                /\ \A i \in DOMAIN log : log[i].thread = t =>
                     log[i].pk = Some(python_to_partition_key(d[FirstPresent(d)]).v)
                /\ Done(t) => result[t].v # Err(PartitionKeyNotFound)
                /\ (Done(t) /\ py_dict_to_json(d).ok /\ WellTyped(d[FirstPresent(d)])) => log # <<>>
           ELSE /\ ~PastResolve(t)
                /\ log = <<>>
                /\ (Done(t) /\ py_dict_to_json(d).ok) => result[t].v = Err(PartitionKeyNotFound)

\* category and pk are both present, id is not, and category's value was used
C2_Witness ==
    \E i \in DOMAIN log :
      LET req == log[i].req
          d == req.body.fields
      IN /\ DictWrite(req) /\ ~HasOverride(req.kwargs)
         /\ Present(d) = {"category", "pk"}
         /\ d["category"] # d["pk"]
         /\ WellTyped(d["pk"])
         /\ log[i].pk = Some(KeyFor(d["category"]))

CreateFruit == WriteReq("create_item", DictBody(FruitDoc), NoKwargs, "")
ReadA1(pk) == KeyedReq("read_item", "a1", PyStr(pk))
TextKey(s) == PartitionKey("Text", s)

\* the read at position j of the log follows a successful create of the fruit
\* item, with no delete of "a1" in between, and the backend answered it
ReadAfterCreate(j) ==
    /\ log[j].status # 503
    /\ \E i \in 1..(j - 1) :
         /\ log[i].req = CreateFruit
         /\ Succeeded(log[i].status)
         /\ \A k \in (i + 1)..(j - 1) :
              ~(log[k].op = "delete_item" /\ Succeeded(log[k].status))

\* C3 as stated: create({"id": "a1", "category": "fruit", "qty": 3}) without
\* an override is stored under partition key "fruit", and a later
\* read("a1", "fruit") returns the item.
C3_StoredUnderFruit ==
    /\ \A i \in DOMAIN log :
         log[i].req = CreateFruit => log[i].pk = Some(TextKey("fruit"))
    /\ \A j \in DOMAIN log :
         (log[j].req = ReadA1("fruit") /\ ReadAfterCreate(j)) => Succeeded(log[j].status)

\* C3, amended: create({"id": "a1", "category": "fruit", "qty": 3}) without
\* an override is stored under partition key "a1", the value of its id, and
\* a later read("a1", "a1") returns {"id": "a1", "category": "fruit", "qty": 3}.
C3_StoredUnderId ==
    /\ \A i \in DOMAIN log :
         log[i].req = CreateFruit => log[i].pk = Some(TextKey("a1"))
    /\ \A j \in DOMAIN log :
         (log[j].req = ReadA1("a1") /\ ReadAfterCreate(j)) => Succeeded(log[j].status)
    /\ \A t \in Threads :
         (call[t] = ReadA1("a1") /\ Done(t) /\ result[t].v.ok) =>
           result[t].v.v = PyDictObj(FruitDoc)

\* the item was created and then read back under "a1"
C3_Witness ==
    \E t \in Threads :
      /\ call[t] = ReadA1("a1") /\ Done(t)
      /\ result[t].v = Ok(PyDictObj(FruitDoc))
      /\ \E j \in DOMAIN log : log[j].req = ReadA1("a1") /\ ReadAfterCreate(j)

\* C4 as stated: a create / upsert / replace of a raw-text body without an
\* override always fails with the resolution error, whatever the text
\* holds, and submits nothing.
C4_TextAlwaysResolutionError ==
    \A t \in Threads :
      (TextWrite(call[t]) /\ ~HasOverride(call[t].kwargs)) =>
        /\ ~PastResolve(t)
        /\ \A i \in DOMAIN log : log[i].thread # t
        /\ Done(t) => result[t].v = Err(PartitionKeyNotInKwargs)

\* C4, amended: a create / upsert / replace of a raw-text body without an
\* override always fails and submits nothing; no key is taken from the text
\* or defaulted.  The failure is the resolution error whenever the text
\* marshals, and the marshaling error of the text otherwise.
C4_TextNeverSubmitted ==
    \A t \in Threads :
      (TextWrite(call[t]) /\ ~HasOverride(call[t].kwargs)) =>
        /\ ~PastResolve(t)
        /\ partition_key[t] = None
        /\ \A i \in DOMAIN log : log[i].thread # t
        /\ Done(t) =>
             result[t].v = IF call[t].body.valid
                           THEN Err(PartitionKeyNotInKwargs)
                           ELSE Err(InvalidJson)

\* a well-formed text holding id and category failed with the resolution error
C4_Witness ==
    \E t \in Threads :
      /\ TextWrite(call[t]) /\ ~HasOverride(call[t].kwargs)
      /\ call[t].body.valid
      /\ DOMAIN call[t].body.fields = {"id", "category"}
      /\ Done(t)
      /\ result[t].v = Err(PartitionKeyNotInKwargs)

\* the raw value a call hands to the partition key coercion, if any
RawSource(req) ==
    CASE req.op \in KeyedOps -> Some(req.pk)
      [] req.op = "query_items" \/ req.op \in WriteOps ->
           IF HasOverride(req.kwargs) THEN Some(Override(req.kwargs))
           ELSE IF DictWrite(req) /\ Present(req.body.fields) # {}
                THEN Some(req.body.fields[FirstPresent(req.body.fields)])
                ELSE None
      [] OTHER -> None

\* the call reaches the coercion: a write marshals its body first
ReachesCoercion(req) ==
    /\ RawSource(req).some
    /\ req.op \in WriteOps => py_object_to_json(req.body).ok

\* types that are neither text nor integer nor floating point
OtherTypes == {"NoneType", "dict", "bytes"}

C6_SingleExecutor ==
    /\ runtimes_built <= 1
    /\ \A i, j \in DOMAIN log : log[i].runtime = log[j].runtime

\* the outcome of partition key resolution that a request calls for
ExpectedKey(req) ==
    CASE req.op \in KeyedOps -> python_to_partition_key(req.pk)
      [] HasOverride(req.kwargs) -> python_to_partition_key(Override(req.kwargs))
      [] DictWrite(req) ->
           IF Present(req.body.fields) # {}
           THEN python_to_partition_key(req.body.fields[FirstPresent(req.body.fields)])
           ELSE Err(PartitionKeyNotFound)
      [] TextWrite(req) -> Err(PartitionKeyNotInKwargs)
      [] OTHER -> Err(QueryNeedsPartitionKey)

\* the structured value of a request's own body
OwnBody(req) ==
    IF req.body.shape = "dict" THEN req.body.fields ELSE json_to_py_dict(req.body.fields)

\* a document written to the given partition by some request in the log
WrittenUnder(pk, fields) ==
    \E i \in DOMAIN log :
      /\ log[i].op \in WriteOps
      /\ log[i].pk = Some(pk)
      /\ log[i].doc.some
      /\ json_to_py_dict(log[i].doc.v) = fields

ResolutionErrors == {PartitionKeyTypeError, PartitionKeyNotFound, PartitionKeyNotInKwargs,
                     QueryNeedsPartitionKey}

\* what reached the backend and what came back belong to the caller's request
NoCrossTalk ==
    /\ database_id = "db1"
    /\ container_id = "c1"
    /\ \A i \in DOMAIN log :
         LET e == log[i] IN
           e.op \notin AccountOps =>
             /\ e.database_id = "db1" /\ e.container_id = "c1"
             /\ e.item = e.req.item
             /\ ExpectedKey(e.req).ok /\ e.pk = Some(ExpectedKey(e.req).v)
             /\ e.op \in WriteOps => e.doc = Some(py_object_to_json(e.req.body).v)
    /\ \A t \in Threads :
         Done(t) =>
           LET req == call[t]
               res == result[t].v
           IN /\ (req.op \in WriteOps /\ res.ok) => res.v = PyDictObj(OwnBody(req))
              /\ (req.op = "read_item" /\ res.ok) =>
                   /\ res.v.kind = "dict"
                   /\ res.v.fields["id"] = PyStr(req.item)
                   /\ WrittenUnder(ExpectedKey(req).v, res.v.fields)
              /\ (req.op = "query_items" /\ res.ok) =>
                   \A k \in DOMAIN res.v.items :
                     WrittenUnder(ExpectedKey(req).v, res.v.items[k].fields)
              /\ (~res.ok /\ res.err \in ResolutionErrors) => ExpectedKey(req) = Err(res.err)
              /\ req.op = "patch_item" => res = Err(PatchNotImplemented)

\* C7: calls issued by several threads against the same container handle
\* all complete, each with the value or error of its own request; no call
\* gets another call's result, payload or partition key, and the handle's
\* database id and container id never change.
C7_NoCrossTalk ==
    /\ []NoCrossTalk
    /\ \A t \in Threads : (pc[t] = "pending") ~> (pc[t] = "done")

\* two threads have completed different writes, each with its own body back
C7_Witness ==
    \E t, u \in Threads :
      /\ t # u /\ Done(t) /\ Done(u)
      /\ call[t].op \in WriteOps /\ call[u].op \in WriteOps
      /\ call[t].body # call[u].body
      /\ result[t].v = Ok(PyDictObj(OwnBody(call[t])))
      /\ result[u].v = Ok(PyDictObj(OwnBody(call[u])))
      /\ \E i, j \in DOMAIN log : log[i].thread = t /\ log[j].thread = u

\* the error kind of the taxonomy a host exception belongs to
ErrorKind(err) ==
    CASE err.class = "PyNotImplementedError" -> "UnsupportedOperationError"
      [] err.class \in {"PyValueError", "PyTypeError"} -> "ValidationError"
      [] OTHER -> err.class

\* C8: patch always fails with the unsupported-operation kind, whatever the
\* item id, the partition key and the patch operations are; nothing is
\* submitted to the backend and no stored item changes.
C8_PatchUnsupported ==
    \A t \in Threads :
      call[t].op = "patch_item" =>
        /\ pc[t] \in {"pending", "patch", "done"}
        /\ \A i \in DOMAIN log : log[i].thread # t
        /\ store \in InitStores
        /\ Done(t) =>
             /\ ~result[t].v.ok
             /\ ErrorKind(result[t].v.err) = "UnsupportedOperationError"
             /\ result[t].v.err.class \notin {"PyValueError", "PyTypeError", "BackendError"}

\* a patch given a null partition key failed as unsupported
C8_Witness ==
    \E t \in Threads :
      /\ call[t].op = "patch_item"
      /\ call[t].pk = PyNone
      /\ Done(t)
      /\ result[t].v = Err(PatchNotImplemented)

\* C9: a query without a partition key fails with an explicit error; it is
\* not submitted and returns no items, not even an empty sequence.  A query
\* with a well-typed partition key is submitted with exactly that key.
C9_QueryNeedsKey ==
    \A t \in Threads :
      LET req == call[t] IN
        req.op = "query_items" =>
          /\ ~HasOverride(req.kwargs) =>
               /\ pc[t] # "respond"
               /\ \A i \in DOMAIN log : log[i].thread # t
               /\ Done(t) => result[t].v = Err(QueryNeedsPartitionKey)
          /\ (HasOverride(req.kwargs) /\ WellTyped(Override(req.kwargs))) =>
               /\ \A i \in DOMAIN log :
                    log[i].thread = t => log[i].pk = Some(KeyFor(Override(req.kwargs)))
               /\ Done(t) => \E i \in DOMAIN log : log[i].thread = t

\* a query whose kwargs lack partition_key was refused
C9_Witness ==
    \E t \in Threads :
      /\ call[t].op = "query_items"
      /\ call[t].kwargs = OtherKwargs
      /\ Done(t)
      /\ result[t].v = Err(QueryNeedsPartitionKey)
      /\ log = <<>>

\* the structural form of a returned value
ShapeOf(obj) == IF obj.kind = "dict" THEN "dict" ELSE "str"

\* C10 as stated: the response of a successful create / upsert / replace
\* has the form of the request body: structured for a structured body, raw
\* text for a raw-text body.
C10_ShapeMirrored ==
    \A t \in Threads :
      (call[t].op \in WriteOps /\ Done(t) /\ result[t].v.ok) =>
        ShapeOf(result[t].v.v) = call[t].body.shape

\* C10, amended: the response of a successful create / upsert / replace is
\* always structured: a structured body comes back as the mapping the caller
\* passed, a raw-text body comes back as the mapping parsed from its text.
C10_AlwaysStructured ==
    \A t \in Threads :
      (call[t].op \in WriteOps /\ Done(t) /\ result[t].v.ok) =>
        /\ ShapeOf(result[t].v.v) = "dict"
        /\ call[t].body.shape = "dict" => result[t].v.v.fields = call[t].body.fields
        /\ call[t].body.shape = "str" =>
             result[t].v.v.fields = json_to_py_dict(call[t].body.fields)

\* a raw-text body was written and came back as a mapping
C10_Witness ==
    \E t \in Threads :
      /\ TextWrite(call[t])
      /\ Done(t)
      /\ result[t].v.ok
      /\ result[t].v.v.kind = "dict"
      /\ \E i \in DOMAIN log : log[i].thread = t /\ Succeeded(log[i].status)

\* the body of a write does not marshal / its partition key does not resolve
MarshalFails(req) == ~py_object_to_json(req.body).ok
ResolveFails(req) == ~ExpectedKey(req).ok

\* C11 as stated: a create / upsert / replace resolves the partition key,
\* then marshals the payload, then submits, each step only after the one
\* before succeeded; a call whose key cannot be resolved reports the
\* resolution failure, even when its payload would not marshal either, and
\* never reaches the backend.
C11_ResolveThenMarshal ==
    \A t \in Threads :
      LET req == call[t] IN
        req.op \in WriteOps =>
          /\ item_value[t].some => partition_key[t].some
          /\ ResolveFails(req) =>
               /\ \A i \in DOMAIN log : log[i].thread # t
               /\ Done(t) => result[t].v = Err(ExpectedKey(req).err)

\* C11, amended: a create / upsert / replace marshals the payload, then
\* resolves the partition key, then submits, each step only after the one
\* before succeeded; a call whose payload does not marshal reports the
\* marshaling failure, even when its key could not be resolved either; a
\* call whose payload marshals and whose key cannot be resolved reports the
\* resolution failure; neither reaches the backend.
C11_MarshalThenResolve ==
    \A t \in Threads :
      LET req == call[t] IN
        req.op \in WriteOps =>
          /\ pc[t] = "resolve" => item_value[t].some
          /\ partition_key[t].some => item_value[t].some
          /\ PastResolve(t) =>
               /\ item_value[t] = Some(py_object_to_json(req.body).v)
               /\ partition_key[t] = Some(ExpectedKey(req).v)
          /\ \A i \in DOMAIN log :
               log[i].thread = t =>
                 /\ ~MarshalFails(req) /\ ~ResolveFails(req)
                 /\ log[i].doc = item_value[t]
                 /\ log[i].pk = partition_key[t]
          /\ MarshalFails(req) =>
               /\ partition_key[t] = None
               /\ Done(t) => result[t].v = Err(py_object_to_json(req.body).err)
          /\ (Done(t) /\ ~MarshalFails(req) /\ ResolveFails(req)) =>
               result[t].v = Err(ExpectedKey(req).err)
          /\ (Done(t) /\ ~MarshalFails(req) /\ ~ResolveFails(req)) =>
               \E i \in DOMAIN log : log[i].thread = t

\* a structured body that neither marshals nor holds a key field failed with
\* the marshaling error, and nothing was submitted
C11_Witness ==
    \E t \in Threads :
      /\ DictWrite(call[t])
      /\ MarshalFails(call[t]) /\ ResolveFails(call[t])
      /\ ExpectedKey(call[t]) = Err(PartitionKeyNotFound)
      /\ Done(t)
      /\ result[t].v = Err(NotJsonSerializable)
      /\ log = <<>>

====
